---- MODULE Spec2Model ----
(***************************************************************************)
(* A model of src/crypto-bite.rs: the Blockchain (chain + pool of          *)
(* current_transactions), Block::calculate_hash, and the proof-of-work     *)
(* search with its validity predicate.                                     *)
(*                                                                         *)
(* Texts are TLA+ strings, built exactly as format! builds them.           *)
(* Amounts (f64) are held in tenths: 10 stands for 1.0, 5 for 0.5.         *)
(***************************************************************************)
EXTENDS Integers, Sequences, FiniteSets, TLC

VARIABLES
    chain,                 \* Blockchain.chain: Vec<Block>
    current_transactions,  \* Blockchain.current_transactions: Vec<Transaction>
    pc,                    \* where the caller stands: "idle", "loop" (inside proof_of_work), "done" (it returned)
    last_proof,            \* proof_of_work's parameter last_proof
    proof,                 \* proof_of_work's local `proof`; once it returned, the caller's copy of the result
    ret,                   \* the last call and the value it returned
    arrived,               \* history: the transactions passed to new_transaction since the last new_block
    queued,                \* history: every transaction ever passed to new_transaction, in call order
    promised,              \* history: what new_transaction returned for each entry of arrived
    probe                  \* the arguments of the last call of a pure function (block_data, valid_proof)

vars == <<chain, current_transactions, pc, last_proof, proof, ret, arrived, queued, promised, probe>>

(***************************************************************************)
(* Bounds of the model and input domains.                                  *)
(***************************************************************************)
\* Longest chain the model builds (genesis included).
MaxChain == 3
\* Most new_transaction calls in one run.
MaxQueued == 3
\* Most transactions the driver queues for one block.
MaxBatch == 1
\* Largest candidate proof_of_work tries in the model (the code's only limit is u64).
MaxCandidate == 35300

\* Readings of Utc::now().timestamp().
Timestamps == {1700000000, 1700000001}
\* Transactions callers queue (main, lines 123 and 131).
Transfers ==
    { [sender |-> "0", recipient |-> "Alice", amount |-> 10],
      [sender |-> "Alice", recipient |-> "Bob", amount |-> 5] }
\* Proof values callers pass to new_block: one that fails after the genesis
\* proof, the one proof_of_work(100) finds, and the one proof_of_work(35293) finds.
ProofInputs == {0, 35293, 35089}
\* last_proof values proof_of_work is called with.
SearchInputs == {100, 35293, 8848, 884, 96750}

(***************************************************************************)
(* Formatting: format!("{}", u64 / i64), format!("{:?}", ...).             *)
(***************************************************************************)
Digit == <<"0", "1", "2", "3", "4", "5", "6", "7", "8", "9">>

RECURSIVE DisplayU64(_)
DisplayU64(n) ==
    IF n < 10 THEN Digit[n + 1]
    ELSE DisplayU64(n \div 10) \o Digit[(n % 10) + 1]

DisplayI64(n) == IF n < 0 THEN "-" \o DisplayU64(0 - n) ELSE DisplayU64(n)

\* {:?} of an f64 that is a whole number of tenths: "1.0", "0.5".
DebugF64(a) == DisplayU64(a \div 10) \o "." \o DisplayU64(a % 10)

\* {:?} of a String without characters that Debug escapes.
DebugString(s) == "\"" \o s \o "\""

\* #[derive(Debug)] on Transaction.
DebugTransaction(t) ==
    "Transaction { sender: " \o DebugString(t.sender)
        \o ", recipient: " \o DebugString(t.recipient)
        \o ", amount: " \o DebugF64(t.amount) \o " }"

RECURSIVE DebugItems(_)
DebugItems(txs) ==
    IF Len(txs) = 0 THEN ""
    ELSE IF Len(txs) = 1 THEN DebugTransaction(txs[1])
    ELSE DebugTransaction(txs[1]) \o ", " \o DebugItems(Tail(txs))

\* {:?} of Vec<Transaction>.
DebugVec(txs) == "[" \o DebugItems(txs) \o "]"

(***************************************************************************)
(* SHA-256 (crate sha2) followed by format!("{:x}", digest).               *)
(*                                                                         *)
(* Sha256ZeroPrefixed lists every text Display(lp) ++ Display(p), for lp   *)
(* in {0, 100, 884, 8848, 35089, 35293, 96750} and p in 0..40000, whose    *)
(* SHA-256 digest starts with the hex digits 0000 (computed with SHA-256). *)
(* The digest text is modelled as its leading 0000 (when it has one)       *)
(* followed by a token that stands for the remaining digits and is         *)
(* different for different inputs (collision resistance). The program     *)
(* inspects the digits of a digest only in valid_proof; for any other      *)
(* text (a block's data) the leading digits are not known to the model.    *)
(***************************************************************************)
Sha256ZeroPrefixed == {"88484", "967500", "10035293", "3529335089"}

Sha256Hex(data) ==
    IF data \in Sha256ZeroPrefixed THEN "0000" \o "#" \o data
    ELSE "#" \o data

\* str::starts_with
starts_with(s, prefix) ==
    Len(s) >= Len(prefix) /\ SubSeq(s, 1, Len(prefix)) = prefix

(***************************************************************************)
(* Block                                                                   *)
(***************************************************************************)
\* Block::new; now is the reading of Utc::now().timestamp().
Block_new(index, transactions, p, previous_hash, now) ==
    [index |-> index, timestamp |-> now, transactions |-> transactions,
     proof |-> p, previous_hash |-> previous_hash]

\* The text Block::calculate_hash feeds to the hasher.
block_data(b) ==
    DisplayU64(b.index) \o DisplayI64(b.timestamp) \o DebugVec(b.transactions)
        \o DisplayU64(b.proof) \o b.previous_hash

\* calculate_hash mixing the length of the chain into the data.
calculate_hash_with_len(b) == Sha256Hex(block_data(b) \o DisplayU64(Len(chain)))

\* Block::calculate_hash
calculate_hash(b) == Sha256Hex(block_data(b))

(***************************************************************************)
(* Blockchain                                                              *)
(***************************************************************************)
NoCall == [op |-> "none", val |-> 0]
Panic == [op |-> "panic", val |-> 0]

\* Blockchain::new without the push of the genesis block.
Blockchain_new_no_genesis(now) ==
    /\ chain = <<>>
    /\ current_transactions = <<>>
    /\ now \in Timestamps

\* Blockchain::new with String::new() as the genesis previous_hash.
Blockchain_new_empty_hash(now) ==
    /\ chain = <<Block_new(0, <<>>, 100, "", now)>>
    /\ current_transactions = <<>>

\* Blockchain::new
Blockchain_new(now) ==
    /\ chain = <<Block_new(0, <<>>, 100, "0", now)>>
    /\ current_transactions = <<>>

\* last_block taking chain.first() instead of chain.last().
last_block_of_first(c) == c[1]

\* Blockchain::last_block on a given chain (unwrap panics on an empty chain).
last_block_of(c) == c[Len(c)]

last_block == last_block_of(chain)

\* valid_proof formatting the pair in the other order.
valid_proof_swapped(lp, p) ==
    LET guess == DisplayU64(p) \o DisplayU64(lp)
        result == Sha256Hex(guess)
    IN  starts_with(result, "0000")

\* valid_proof formatting the candidate zero-padded to three digits ({:03}).
valid_proof_padded(lp, p) ==
    LET padded == IF p < 10 THEN "00" \o DisplayU64(p)
                  ELSE IF p < 100 THEN "0" \o DisplayU64(p)
                  ELSE DisplayU64(p)
        guess == DisplayU64(lp) \o padded
        result == Sha256Hex(guess)
    IN  starts_with(result, "0000")

\* Blockchain::valid_proof
valid_proof(lp, p) ==
    LET guess == DisplayU64(lp) \o DisplayU64(p)
        result == Sha256Hex(guess)
    IN  starts_with(result, "0000")

\* new_transaction returning the last index without the + 1.
new_transaction_last_index(t) ==
    /\ current_transactions' = Append(current_transactions, t)
    /\ arrived' = Append(arrived, t)
    /\ queued' = Append(queued, t)
    /\ ret' = [op |-> "new_transaction", val |-> last_block.index]
    /\ promised' = Append(promised, last_block.index)
    /\ UNCHANGED chain

\* new_transaction inserting at the front of the pool.
new_transaction_insert_front(t) ==
    /\ current_transactions' = <<t>> \o current_transactions
    /\ arrived' = Append(arrived, t)
    /\ queued' = Append(queued, t)
    /\ ret' = [op |-> "new_transaction", val |-> last_block.index + 1]
    /\ promised' = Append(promised, last_block.index + 1)
    /\ UNCHANGED chain

\* Blockchain::new_transaction
new_transaction(t) ==
    /\ current_transactions' = Append(current_transactions, t)
    /\ arrived' = Append(arrived, t)
    /\ queued' = Append(queued, t)
    /\ IF chain = <<>>
       THEN ret' = Panic /\ promised' = promised
       ELSE /\ ret' = [op |-> "new_transaction", val |-> last_block.index + 1]
            /\ promised' = Append(promised, last_block.index + 1)
    /\ UNCHANGED chain

\* new_block numbering the block with the last index instead of the chain length.
new_block_last_index(p, now) ==
    LET previous_hash == calculate_hash(last_block)
        block == Block_new(last_block.index, current_transactions, p, previous_hash, now)
    IN  /\ current_transactions' = <<>>
        /\ chain' = Append(chain, block)
        /\ ret' = [op |-> "new_block", val |-> block]
        /\ arrived' = <<>>
        /\ promised' = <<>>
        /\ UNCHANGED queued

\* new_block cloning the pool instead of taking it.
new_block_clone_pool(p, now) ==
    LET previous_hash == calculate_hash(last_block)
        block == Block_new(Len(chain), current_transactions, p, previous_hash, now)
    IN  /\ UNCHANGED current_transactions
        /\ chain' = Append(chain, block)
        /\ ret' = [op |-> "new_block", val |-> block]
        /\ arrived' = <<>>
        /\ promised' = <<>>
        /\ UNCHANGED queued

\* new_block re-validating the proof and rejecting one that fails.
new_block_checked(p, now) ==
    IF ~valid_proof(last_block.proof, p)
    THEN /\ ret' = [op |-> "rejected", val |-> 0]
         /\ UNCHANGED <<chain, current_transactions, arrived, queued, promised>>
    ELSE LET previous_hash == calculate_hash(last_block)
             block == Block_new(Len(chain), current_transactions, p, previous_hash, now)
         IN  /\ current_transactions' = <<>>
             /\ chain' = Append(chain, block)
             /\ ret' = [op |-> "new_block", val |-> block]
             /\ arrived' = <<>>
             /\ promised' = <<>>
             /\ UNCHANGED queued

\* new_block inserting the block at the front of the chain.
new_block_insert_front(p, now) ==
    LET previous_hash == calculate_hash(last_block)
        block == Block_new(Len(chain), current_transactions, p, previous_hash, now)
    IN  /\ current_transactions' = <<>>
        /\ chain' = <<block>> \o chain
        /\ ret' = [op |-> "new_block", val |-> block]
        /\ arrived' = <<>>
        /\ promised' = <<>>
        /\ UNCHANGED queued

\* new_block returning a block built from the pool after it was taken.
new_block_returns_emptied(p, now) ==
    LET previous_hash == calculate_hash(last_block)
        block == Block_new(Len(chain), current_transactions, p, previous_hash, now)
    IN  /\ current_transactions' = <<>>
        /\ chain' = Append(chain, block)
        /\ ret' = [op |-> "new_block",
                   val |-> Block_new(Len(chain), <<>>, p, previous_hash, now)]
        /\ arrived' = <<>>
        /\ promised' = <<>>
        /\ UNCHANGED queued

\* Blockchain::new_block
new_block(p, now) ==
    IF chain = <<>>
    THEN /\ ret' = Panic
         /\ UNCHANGED <<chain, current_transactions, arrived, queued, promised>>
    ELSE LET previous_hash == calculate_hash(last_block)
             block == Block_new(Len(chain), current_transactions, p, previous_hash, now)
         IN  /\ current_transactions' = <<>>
             /\ chain' = Append(chain, block)
             /\ ret' = [op |-> "new_block", val |-> block]
             /\ arrived' = <<>>
             /\ promised' = <<>>
             /\ UNCHANGED queued

(***************************************************************************)
(* The ledger driven by arbitrary callers.                                 *)
(***************************************************************************)
Init ==
    /\ \E now \in Timestamps : Blockchain_new(now)
    /\ pc = "idle"
    /\ last_proof = 0
    /\ proof = 0
    /\ ret = NoCall
    /\ arrived = <<>>
    /\ queued = <<>>
    /\ promised = <<>>
    /\ probe = <<>>

QueueTransfer ==
    /\ pc = "idle"
    /\ Len(queued) < MaxQueued
    /\ \E t \in Transfers : new_transaction(t)
    /\ UNCHANGED <<pc, last_proof, proof, probe>>

CommitBlock ==
    /\ pc = "idle"
    /\ Len(chain) < MaxChain
    /\ \E p \in ProofInputs, now \in Timestamps : new_block(p, now)
    /\ UNCHANGED <<pc, last_proof, proof, probe>>

Next == QueueTransfer \/ CommitBlock

Spec == Init /\ [][Next]_vars

(***************************************************************************)
(* proof_of_work, one loop iteration per step.                             *)
(***************************************************************************)
\* Entry: `let mut proof = 0`.
proof_of_work_call(lp) ==
    /\ last_proof' = lp
    /\ proof' = 0
    /\ pc' = "loop"
    /\ UNCHANGED <<chain, current_transactions, ret, arrived, queued, promised, probe>>

\* The loop stepping the candidate by two.
proof_of_work_step_by_two ==
    /\ pc = "loop"
    /\ ~valid_proof(last_proof, proof)
    /\ proof < MaxCandidate
    /\ proof' = proof + 2
    /\ UNCHANGED <<chain, current_transactions, pc, last_proof, ret, arrived, queued, promised, probe>>

\* `while !self.valid_proof(last_proof, proof) { proof += 1; }`: one iteration.
proof_of_work_step ==
    /\ pc = "loop"
    /\ ~valid_proof(last_proof, proof)
    /\ proof < MaxCandidate
    /\ proof' = proof + 1
    /\ UNCHANGED <<chain, current_transactions, pc, last_proof, ret, arrived, queued, promised, probe>>

\* The loop condition fails: return `proof`.
proof_of_work_return ==
    /\ pc = "loop"
    /\ valid_proof(last_proof, proof)
    /\ pc' = "done"
    /\ ret' = [op |-> "proof_of_work", val |-> proof]
    /\ UNCHANGED <<chain, current_transactions, last_proof, proof, arrived, queued, promised, probe>>

\* A caller runs proof_of_work on a last_proof of its choice.
SearchCall ==
    /\ pc = "idle"
    /\ \E lp \in SearchInputs : proof_of_work_call(lp)

NextSearch == SearchCall \/ proof_of_work_step \/ proof_of_work_return

\* The loop is sequential code: once entered it keeps running.
SpecSearch == Init /\ [][NextSearch]_vars /\ WF_vars(proof_of_work_step \/ proof_of_work_return)

(***************************************************************************)
(* The ledger with its read-only methods called between the mutating ones. *)
(***************************************************************************)
\* Proofs passed to new_block while the read-only methods are exercised.
ReadsProofInputs == {35293}
\* Arguments of valid_proof: a pair that passes and one that fails.
ValidProofInputs == {<<100, 35293>>, <<100, 0>>}
\* last_proof values with a short search: proof_of_work(8848) = 4.
ShortSearchInputs == {8848}

\* last_block popping the block it returns.
LatestBlock_pop ==
    /\ pc = "idle"
    /\ chain # <<>>
    /\ ret' = [op |-> "last_block", val |-> last_block]
    /\ chain' = SubSeq(chain, 1, Len(chain) - 1)
    /\ UNCHANGED <<current_transactions, pc, last_proof, proof, arrived, queued, promised, probe>>

\* A call of last_block (&self).
LatestBlock ==
    /\ pc = "idle"
    /\ IF chain = <<>>
       THEN ret' = Panic
       ELSE ret' = [op |-> "last_block", val |-> last_block]
    /\ UNCHANGED <<chain, current_transactions, pc, last_proof, proof, arrived, queued, promised, probe>>

\* A call of valid_proof (&self).
ValidProofCall ==
    /\ pc = "idle"
    /\ \E a \in ValidProofInputs :
          ret' = [op |-> "valid_proof", val |-> valid_proof(a[1], a[2])]
    /\ UNCHANGED <<chain, current_transactions, pc, last_proof, proof, arrived, queued, promised, probe>>

\* A call of calculate_hash (&self) on a block of the chain.
CalculateHashCall ==
    /\ pc = "idle"
    /\ \E i \in 1..Len(chain) :
          ret' = [op |-> "calculate_hash", val |-> calculate_hash(chain[i])]
    /\ UNCHANGED <<chain, current_transactions, pc, last_proof, proof, arrived, queued, promised, probe>>

\* A call of proof_of_work (&self).
ReadsSearch ==
    /\ pc = "idle"
    /\ \E lp \in ShortSearchInputs : proof_of_work_call(lp)

\* A call of new_block.
ReadsCommit ==
    /\ pc = "idle"
    /\ Len(chain) < MaxChain
    /\ \E p \in ReadsProofInputs, now \in Timestamps : new_block(p, now)
    /\ UNCHANGED <<pc, last_proof, proof, probe>>

NextReads ==
    \/ QueueTransfer
    \/ ReadsCommit
    \/ LatestBlock
    \/ ValidProofCall
    \/ CalculateHashCall
    \/ ReadsSearch
    \/ proof_of_work_step
    \/ proof_of_work_return

SpecReads == Init /\ [][NextReads]_vars

\* The ledger with calculate_hash called between the mutating methods.
NextHash == QueueTransfer \/ ReadsCommit \/ CalculateHashCall

SpecHash == Init /\ [][NextHash]_vars

(***************************************************************************)
(* The pure functions on arguments of the caller's choice.                 *)
(***************************************************************************)
\* Block values handed to calculate_hash.
Blocks ==
    [index : {1, 12}, timestamp : {3, 23},
     transactions : {<<>>, <<[sender |-> "0", recipient |-> "Alice", amount |-> 10]>>},
     proof : {1, 10}, previous_hash : {"0", "f3"}]

\* (last_proof, proof) pairs handed to valid_proof.
ProofPairs == {1, 12, 8, 88, 884, 8848} \X {3, 23, 4, 84, 484, 8484}

\* The data calculate_hash hashes, for two blocks.
BlockDataCall ==
    /\ pc = "idle"
    /\ ret.op = "none"
    /\ \E a \in Blocks, b \in Blocks :
          /\ probe' = <<a, b>>
          /\ ret' = [op |-> "block_data", val |-> <<block_data(a), block_data(b)>>]
    /\ UNCHANGED <<chain, current_transactions, pc, last_proof, proof, arrived, queued, promised>>

\* valid_proof on two pairs.
ValidProofPairCall ==
    /\ pc = "idle"
    /\ ret.op = "none"
    /\ \E x \in ProofPairs, y \in ProofPairs :
          /\ probe' = <<x, y>>
          /\ ret' = [op |-> "valid_proof_twice",
                     val |-> <<valid_proof(x[1], x[2]), valid_proof(y[1], y[2])>>]
    /\ UNCHANGED <<chain, current_transactions, pc, last_proof, proof, arrived, queued, promised>>

NextData == BlockDataCall \/ ValidProofPairCall

SpecData == Init /\ [][NextData]_vars

(***************************************************************************)
(* The calling protocol of main: read the latest proof, search, queue,     *)
(* commit with the proof found.                                            *)
(***************************************************************************)
\* The driver searching from the genesis proof every time.
DriverSearch_from_genesis ==
    /\ pc = "idle"
    /\ Len(chain) < MaxChain
    /\ chain[1].proof \in SearchInputs
    /\ proof_of_work_call(chain[1].proof)

\* `let last_proof = blockchain.last_block().proof;
\*  let proof = blockchain.proof_of_work(last_proof);` (the call)
\* A search is started only from a proof in SearchInputs: the next proof of
\* main's chain, proof_of_work(35089) = 119678, lies beyond MaxCandidate.
DriverSearch ==
    /\ pc = "idle"
    /\ Len(chain) < MaxChain
    /\ last_block.proof \in SearchInputs
    /\ proof_of_work_call(last_block.proof)

\* `blockchain.new_transaction(...)` between the search and the commit.
DriverQueue ==
    /\ pc = "done"
    /\ Len(current_transactions) < MaxBatch
    /\ \E t \in Transfers : new_transaction(t)
    /\ UNCHANGED <<pc, last_proof, proof, probe>>

\* `let block = blockchain.new_block(proof);`
DriverCommit ==
    /\ pc = "done"
    /\ \E now \in Timestamps : new_block(proof, now)
    /\ pc' = "idle"
    /\ UNCHANGED <<last_proof, proof, probe>>

NextDriver ==
    DriverSearch \/ proof_of_work_step \/ proof_of_work_return \/ DriverQueue \/ DriverCommit

SpecDriver == Init /\ [][NextDriver]_vars

(***************************************************************************)
(* Claims                                                                  *)
(***************************************************************************)
\* valid_proof holds between each block's proof and its predecessor's.
ProofsValid(c) ==
    \A i \in 2..Len(c) : valid_proof(c[i - 1].proof, c[i].proof)

\* A step that is a call of new_block.
CommitStep == \E p \in ProofInputs, now \in Timestamps : new_block(p, now)

\* s is a prefix of t.
IsPrefix(s, t) == Len(s) <= Len(t) /\ SubSeq(t, 1, Len(s)) = s

\* C1: every non-genesis block's previous_hash equals calculate_hash of the
\* block before it, as that block stands in the chain now.
C1_HashChaining ==
    \A i \in 2..Len(chain) : chain[i].previous_hash = calculate_hash(chain[i - 1])

C1_Witness ==
    /\ Len(chain) = 3
    /\ chain[2].transactions # <<>>
    /\ ret.op = "new_block"

\* C2: the block at position i of the chain (zero-based) has index i.
C2_DenseIndex ==
    \A i \in 1..Len(chain) : chain[i].index = i - 1

C2_Witness ==
    /\ Len(chain) = 3
    /\ ret.op = "new_block"
    /\ ret.val.index = 2

\* C3: every non-genesis block's proof satisfies valid_proof relative to its
\* predecessor's proof, whatever proofs callers passed to new_block.
C3_EveryProofValid == ProofsValid(chain)

\* C4: a new_block call does not fail, the block it appends carries exactly
\* the transactions queued since the previous new_block (or since
\* construction), in call order, and the pool is empty afterwards.
C4_PoolTransfer ==
    [][CommitStep =>
        /\ ret'.op = "new_block"
        /\ Len(chain') = Len(chain) + 1
        /\ last_block_of(chain').transactions = arrived
        /\ current_transactions' = <<>>]_vars

C4_Witness ==
    /\ Len(chain) = 3
    /\ chain[2].transactions = <<>>
    /\ Len(chain[3].transactions) = 2
    /\ chain[3].transactions[1] # chain[3].transactions[2]
    /\ current_transactions = <<>>
    /\ ret.op = "new_block"

\* C5: construction yields a chain of length 1 and an empty pool, and in
\* every state the first block has index 0, no transactions, proof 100 and
\* previous_hash "0".
C5_Genesis ==
    /\ Len(chain) >= 1
    /\ chain[1].index = 0
    /\ chain[1].transactions = <<>>
    /\ chain[1].proof = 100
    /\ chain[1].previous_hash = "0"
    /\ (ret.op = "none" => Len(chain) = 1 /\ current_transactions = <<>>)

C5_Witness ==
    /\ Len(chain) = 3
    /\ ret.op = "new_transaction"
    /\ chain[1].proof = 100

\* C6: proof_of_work starts at candidate 0, moves from a candidate only to
\* the next one and only when the candidate fails valid_proof, and what it
\* returns is valid while every smaller candidate is not.
C6_LeastProof ==
    /\ [](pc = "done" =>
            /\ valid_proof(last_proof, ret.val)
            /\ \A c \in 0..(ret.val - 1) : ~valid_proof(last_proof, c))
    /\ [][pc = "idle" /\ pc' = "loop" => proof' = 0]_vars
    /\ [][pc = "loop" /\ proof' # proof =>
            proof' = proof + 1 /\ ~valid_proof(last_proof, proof)]_vars

C6_Witness ==
    /\ pc = "done"
    /\ last_proof = 100
    /\ ret.op = "proof_of_work"
    /\ ret.val = 35293

C8_CommitUnchecked ==
    [][\A p \in ProofInputs, now \in Timestamps :
        new_block(p, now) =>
            /\ ret'.op = "new_block"
            /\ chain' = Append(chain,
                  [index |-> Len(chain), timestamp |-> now,
                   transactions |-> current_transactions, proof |-> p,
                   previous_hash |-> calculate_hash(chain[Len(chain)])])
            /\ current_transactions' = <<>>]_vars

C8_Witness ==
    /\ ret.op = "new_block"
    /\ Len(chain) = 3
    /\ ~valid_proof(chain[2].proof, chain[3].proof)
    /\ chain[3].proof = ret.val.proof
    /\ chain[3].transactions # <<>>

\* C9: when every new_block gets the proof proof_of_work found for the
\* latest block's proof, every block's proof is valid relative to its
\* predecessor's, and the proof held for the next commit is valid relative
\* to the latest block's.
C9_ProtocolProofsValid ==
    /\ ProofsValid(chain)
    /\ (pc = "done" => valid_proof(last_block.proof, proof))

C9_Witness ==
    /\ Len(chain) = 3
    /\ pc = "idle"
    /\ chain[2].proof = 35293
    /\ chain[3].proof = 35089
    /\ chain[3].transactions # <<>>

\* C10: every step leaves the chain as it was or extends it: the old chain is
\* a prefix of the new one, a new_block call adds exactly one block and any
\* other step adds none.
C10_AppendOnly ==
    [][/\ IsPrefix(chain, chain')
       /\ (CommitStep => Len(chain') = Len(chain) + 1)
       /\ (~CommitStep => Len(chain') = Len(chain))]_vars

C10_Witness ==
    /\ Len(chain) = 3
    /\ ret.op = "new_transaction"
    /\ Len(current_transactions) = 2

\* C11: new_transaction returns the chain length at the time of the call,
\* and the block the next new_block creates, which holds the transaction,
\* has that value as its index.
C11_PromisedIndex ==
    /\ [](ret.op = "new_transaction" => ret.val = Len(chain))
    /\ [](Len(promised) = Len(current_transactions))
    /\ [][CommitStep =>
            \A i \in 1..Len(promised) :
                promised[i] = last_block_of(chain').index]_vars

C11_Witness ==
    /\ ret.op = "new_block"
    /\ Len(chain) = 3
    /\ ret.val.index = 2
    /\ Len(ret.val.transactions) = 2
    /\ chain[2].transactions # <<>>

\* C12: new_transaction puts exactly the given transaction at the end of the
\* pool, keeps the earlier entries in place, leaves the chain alone and
\* rejects nothing.
C12_QueueAppends ==
    [][\A t \in Transfers :
        new_transaction(t) =>
            /\ ret'.op = "new_transaction"
            /\ Len(current_transactions') = Len(current_transactions) + 1
            /\ current_transactions'[Len(current_transactions')] = t
            /\ SubSeq(current_transactions', 1, Len(current_transactions)) = current_transactions
            /\ chain' = chain]_vars

C12_Witness ==
    /\ ret.op = "new_transaction"
    /\ Len(current_transactions) = 2
    /\ current_transactions[1] # current_transactions[2]
    /\ Len(chain) = 2

\* C13: the chain is never empty, last_block never fails, and what it
\* returns is the block whose index is the chain length minus one.
C13_NeverEmpty ==
    /\ Len(chain) >= 1
    /\ ret.op # "panic"
    /\ last_block.index = Len(chain) - 1
    /\ (ret.op = "last_block" =>
            ret.val = chain[Len(chain)] /\ ret.val.index = Len(chain) - 1)

C13_Witness ==
    /\ ret.op = "last_block"
    /\ Len(chain) = 3
    /\ ret.val.index = 2
    /\ current_transactions # <<>>

\* The ledger is the same before and after the step.
LedgerUnchanged ==
    chain' = chain /\ current_transactions' = current_transactions

C16_ReturnsAppended ==
    ret.op = "new_block" =>
        /\ ret.val = chain[Len(chain)]
        /\ current_transactions = <<>>

C16_Witness ==
    /\ ret.op = "new_block"
    /\ Len(chain) = 2
    /\ Len(ret.val.transactions) = 3

\* C17: proof_of_work, valid_proof and last_block leave the chain and the
\* pool as they were; a step that changes either is a new_transaction or a
\* new_block.
C17_ReadOnlyFrame ==
    /\ [][(LatestBlock \/ ValidProofCall \/ ReadsSearch
              \/ proof_of_work_step \/ proof_of_work_return) => LedgerUnchanged]_vars
    /\ [][~LedgerUnchanged => ret'.op \in {"new_transaction", "new_block"}]_vars

C17_Witness ==
    /\ pc = "done"
    /\ ret.op = "proof_of_work"
    /\ Len(chain) = 3
    /\ current_transactions # <<>>

\* C14: two blocks that differ in a field give different data to the hash.
C14_DataInjective ==
    ret.op = "block_data" =>
        (probe[1] # probe[2] => ret.val[1] # ret.val[2])

\* C18: valid_proof gives the same answer for two pairs whose decimal texts,
\* last_proof followed by proof, are the same text.
C18_ConcatenationOnly ==
    ret.op = "valid_proof_twice" =>
        (DisplayU64(probe[1][1]) \o DisplayU64(probe[1][2])
            = DisplayU64(probe[2][1]) \o DisplayU64(probe[2][2])
         => ret.val[1] = ret.val[2])

C18_Witness ==
    /\ ret.op = "valid_proof_twice"
    /\ probe = <<(<<8, 8484>>), (<<884, 84>>)>>
    /\ ret.val = <<TRUE, TRUE>>

\* The transactions of the blocks of c, in chain order.
RECURSIVE ChainTransfers(_)
ChainTransfers(c) ==
    IF c = <<>> THEN <<>>
    ELSE ChainTransfers(SubSeq(c, 1, Len(c) - 1)) \o c[Len(c)].transactions

\* C19: the transactions of the blocks, in chain order, followed by the pool
\* are exactly the transactions ever passed to new_transaction, in call
\* order: none lost, none in two places.
C19_Conservation ==
    ChainTransfers(chain) \o current_transactions = queued

C19_Witness ==
    /\ Len(chain) = 3
    /\ chain[2].transactions # <<>>
    /\ chain[3].transactions # <<>>
    /\ current_transactions # <<>>
    /\ Len(queued) = 3

====
